---- MODULE Spec2Model ----
(***************************************************************************)
(* Model of the screw_data_loading preprocessing pipeline:                 *)
(*   load/from_directory.py  (record loop, cycle filter, accumulation)     *)
(*   prep/truncating.py, prep/padding.py, prep/equidistancing.py           *)
(*   prep/splitting.py, prep/converting.py                                 *)
(*                                                                         *)
(* Conventions                                                             *)
(*   - Python None is the empty tuple <<>>, a present value x is <<x>>.    *)
(*   - A Python dict is a sequence of [k, v] records in insertion order.   *)
(*   - Time is counted in ticks of 0.0001, so the interval 0.0012 is 12.   *)
(*   - A split ratio is the exact rational <<num, den>>.                   *)
(*   - An operator that models a function returns a record whose field     *)
(*     err is "none" or the name of the exception the function raises.     *)
(***************************************************************************)
EXTENDS Integers, Sequences, FiniteSets, TLC

VARIABLES
    cfg,               \* from_directory: the keyword arguments
    all_cycle_counts,  \* from_directory: id -> number of well-formed records seen
    return_values,     \* from_directory: channel buffers ++ <<label buffer>>
    pc,                \* from_directory: "loop", "done" or "error"
    seen,              \* history: the records enumerated so far
    last,              \* history: what the loop body did with the last record
    result,            \* from_directory: the returned value
    rng,               \* state of the process-wide generator of module random
    call,              \* unit harness: the arguments of the call under test
    ret,               \* unit harness: what the call returned
    splitRef           \* unit harness: the first seeded apply_split call

vars == <<cfg, all_cycle_counts, return_values, pc, seen, last, result,
          rng, call, ret, splitRef>>

(***************************************************************************)
(* Bounds of the model                                                     *)
(***************************************************************************)
MaxLen == 3
MaxTarget == 3
MaxRecords == 3
MaxFiles == 3

(***************************************************************************)
(* Python values                                                           *)
(***************************************************************************)
None == <<>>

Some(x) == <<x>>

Min(a, b) == IF a < b THEN a ELSE b

Max(a, b) == IF a > b THEN a ELSE b

SeqsUpTo(S, n) == UNION {[1..m -> S] : m \in 0..n}

Repeat(x, n) == [i \in 1..n |-> x]

\* Python's normalisation of a slice bound i for a list of length n
PyNorm(i, n) == IF i < 0 THEN Max(i + n, 0) ELSE Min(i, n)

\* seq[start:]
SliceFrom(seq, start) == SubSeq(seq, PyNorm(start, Len(seq)) + 1, Len(seq))

\* seq[:stop]
SliceTo(seq, stop) == SubSeq(seq, 1, PyNorm(stop, Len(seq)))

(***************************************************************************)
(* Python dicts, in insertion order                                        *)
(***************************************************************************)
DictKeys(d) == [i \in 1..Len(d) |-> d[i].k]

DictHas(d, key) == \E i \in 1..Len(d) : d[i].k = key

DictGet(d, key) == d[CHOOSE i \in 1..Len(d) : d[i].k = key].v

\* d[key] = val : in place when the key exists, appended otherwise
DictSet(d, key, val) ==
    IF DictHas(d, key)
    THEN [i \in 1..Len(d) |-> IF d[i].k = key THEN [k |-> key, v |-> val] ELSE d[i]]
    ELSE Append(d, [k |-> key, v |-> val])

\* {k: f(v) for k, v in d.items()} for the values in vs
DictWithValues(d, vs) == [i \in 1..Len(d) |-> [k |-> d[i].k, v |-> vs[i]]]

(***************************************************************************)
(* prep/truncating.py                                                      *)
(***************************************************************************)
\* a faulty variant: the cutoff position is ignored
truncate_sequence_keep_head(seq, target_length, cutoff_position) ==
    SliceTo(seq, target_length)

truncate_sequence(seq, target_length, cutoff_position) ==
    IF cutoff_position = "pre"
    THEN SliceFrom(seq, 0 - target_length)
    ELSE SliceTo(seq, target_length)

apply_truncating(cycle_values, target_length, cutoff_position) ==
    IF Len(cycle_values) = 0
    THEN [err |-> "StopIteration"]
    ELSE LET truncated_sequences ==
                 DictWithValues(cycle_values,
                     [i \in 1..Len(cycle_values) |->
                         truncate_sequence(cycle_values[i].v, target_length,
                                           cutoff_position)])
         IN  [err |-> "none",
              values |-> truncated_sequences,
              initial_length |-> Len(cycle_values[1].v),
              final_length |-> Len(truncated_sequences[1].v)]

(***************************************************************************)
(* prep/padding.py                                                         *)
(***************************************************************************)
\* the fixed spacing 0.0012 of the regenerated time channel, in ticks
TimeInterval == 12

\* np.pad(seq, (before, after), "constant", constant_values=val)
np_pad(seq, before, after, val) ==
    IF before < 0 \/ after < 0
    THEN [err |-> "ValueError"]
    ELSE [err |-> "none", v |-> Repeat(val, before) \o seq \o Repeat(val, after)]

\* np.linspace(start, stop, num) for num >= 0
np_linspace(start, stop, num) ==
    [i \in 1..num |->
        IF num = 1 THEN start ELSE start + ((i - 1) * (stop - start)) \div (num - 1)]

\* a faulty variant: the pad length is one short
pad_sequence_off_by_one(seq, target_length, padding_val, padding_pos) ==
    LET pad_len == target_length - Len(seq) - 1
    IN  IF padding_pos = "pre"
        THEN np_pad(seq, pad_len, 0, padding_val)
        ELSE np_pad(seq, 0, pad_len, padding_val)

\* a faulty variant: "pre" and "post" are exchanged
pad_sequence_swapped(seq, target_length, padding_val, padding_pos) ==
    LET pad_len == target_length - Len(seq)
    IN  IF padding_pos = "pre"
        THEN np_pad(seq, 0, pad_len, padding_val)
        ELSE np_pad(seq, pad_len, 0, padding_val)

pad_sequence(seq, target_length, padding_val, padding_pos) ==
    LET pad_len == target_length - Len(seq)
    IN  IF padding_pos = "pre"
        THEN np_pad(seq, pad_len, 0, padding_val)
        ELSE np_pad(seq, 0, pad_len, padding_val)

\* a faulty variant: the padded time values are kept
OverwriteTime_skipped(padded_sequences, target_length) == padded_sequences

\* padded_sequences["time"] = np.linspace(0, (target_length - 1) * 0.0012, target_length)
OverwriteTime(padded_sequences, target_length) ==
    DictSet(padded_sequences, "time",
            np_linspace(0, (target_length - 1) * TimeInterval, target_length))

\* target_length is the caller's optional value: None or <<L>>
apply_padding(cycle_values, padding_val, padding_pos, target_length) ==
    IF Len(cycle_values) = 0
    THEN [err |-> "StopIteration"]
    ELSE IF target_length = None
    THEN [err |-> "TypeError"]
    ELSE LET L == target_length[1]
             padded == [i \in 1..Len(cycle_values) |->
                           pad_sequence(cycle_values[i].v, L, padding_val,
                                        padding_pos)]
         IN  IF \E i \in 1..Len(cycle_values) : padded[i].err # "none"
             THEN [err |-> "ValueError"]
             ELSE LET padded_sequences ==
                          OverwriteTime(
                              DictWithValues(cycle_values,
                                  [i \in 1..Len(cycle_values) |-> padded[i].v]),
                              L)
                  IN  [err |-> "none",
                       values |-> padded_sequences,
                       initial_length |-> Len(cycle_values[1].v),
                       final_length |-> Len(padded_sequences[1].v)]

(***************************************************************************)
(* prep/converting.py                                                      *)
(***************************************************************************)
\* a faulty variant: everything but "OK" counts as a failure
convert_to_binary_inverted(data) ==
    [i \in 1..Len(data) |-> IF data[i] = "OK" THEN 0 ELSE 1]

convert_to_binary(data) ==
    [i \in 1..Len(data) |-> IF data[i] = "NOK" THEN 1 ELSE 0]

(***************************************************************************)
(* Module random, as prep/splitting.py uses it.  The generator is a small  *)
(* linear congruential stand-in for the Mersenne Twister: what the model   *)
(* keeps is that seed() fixes the whole state, that every draw advances    *)
(* it, and that shuffle() is the Fisher-Yates loop of the library.         *)
(***************************************************************************)
RngModulus == 16

RngStates == 0..(RngModulus - 1)

RngNext(state) == (5 * state + 3) % RngModulus

\* random.seed(a)
random_seed(a) == (7 * a + 1) % RngModulus

\* random._randbelow(n): the draw and the state after it
randbelow(n, state) ==
    [value |-> RngNext(state) % n, state |-> RngNext(state)]

Swap(x, i, j) == [x EXCEPT ![i] = x[j], ![j] = x[i]]

\* the loop "for i in reversed(range(1, len(x)))" from position i downwards;
\* positions are 1-based here, so i runs from Len(x) down to 2
RECURSIVE ShuffleFrom(_, _, _)
ShuffleFrom(x, i, state) ==
    IF i < 2
    THEN [list |-> x, state |-> state]
    ELSE LET d == randbelow(i, state)
         IN  ShuffleFrom(Swap(x, i, d.value + 1), i - 1, d.state)

\* random.shuffle(x)
random_shuffle(x, state) == ShuffleFrom(x, Len(x), state)

(***************************************************************************)
(* prep/splitting.py                                                       *)
(***************************************************************************)
\* flatten(): ndarray entries become lists; the entries' contents are kept
flatten(data) ==
    [c \in 1..Len(data) |-> [k \in 1..Len(data[c]) |-> data[c][k]]]

\* a faulty variant: the train part gets one record at least
SplitIndex_at_least_one(data_length, split_ratio) ==
    IF data_length * split_ratio[1] < split_ratio[2] THEN 1
    ELSE (data_length * split_ratio[1]) \div split_ratio[2]

\* a faulty variant: the product is rounded up
SplitIndex_rounded_up(data_length, split_ratio) ==
    (data_length * split_ratio[1] + split_ratio[2] - 1) \div split_ratio[2]

\* int(data_length * split_ratio) for the ratio num/den
SplitIndex(data_length, split_ratio) ==
    (data_length * split_ratio[1]) \div split_ratio[2]

\* a faulty variant: no ratio is taken to be in the unit interval
RatioInUnitInterval_never(split_ratio) == FALSE

\* 0 < split_ratio < 1
RatioInUnitInterval(split_ratio) ==
    0 < split_ratio[1] /\ split_ratio[1] < split_ratio[2]

\* a faulty variant: random.seed is never called
SplitSeedState_unseeded(split_seed, state) == state

\* the generator state apply_split shuffles with
SplitSeedState(split_seed, state) ==
    IF split_seed # None THEN random_seed(split_seed[1]) ELSE state

\* a faulty variant: the label buffer keeps its original order
ShuffleData_labels_unshuffled(data, indices) ==
    [c \in 1..Len(data) |->
        IF c = Len(data)
        THEN data[c]
        ELSE [k \in 1..Len(indices) |-> data[c][indices[k] + 1]]]

\* [[values[i] for i in indices] for values in data]
ShuffleData(data, indices) ==
    [c \in 1..Len(data) |-> [k \in 1..Len(indices) |-> data[c][indices[k] + 1]]]

\* apply_split(data, split_ratio, split_seed) called in generator state state
apply_split(data, split_ratio, split_seed, state) ==
    IF Len(data) = 0
    THEN [err |-> "IndexError", state |-> SplitSeedState(split_seed, state)]
    ELSE LET data_length == Len(data[1])
             sh == random_shuffle([i \in 1..data_length |-> i - 1],
                                  SplitSeedState(split_seed, state))
             indices == sh.list
         IN  IF \E c \in 1..Len(data) : Len(data[c]) < data_length
             THEN [err |-> "IndexError", state |-> sh.state]
             ELSE LET flattened_data == flatten(ShuffleData(data, indices))
                      n == Len(flattened_data)
                  IN  IF split_ratio # None /\ RatioInUnitInterval(split_ratio[1])
                      THEN LET split_index ==
                                   SplitIndex(data_length, split_ratio[1])
                               training_data ==
                                   [c \in 1..n |->
                                       SliceTo(flattened_data[c], split_index)]
                               testing_data ==
                                   [c \in 1..n |->
                                       SliceFrom(flattened_data[c], split_index)]
                           IN  [err |-> "none", kind |-> "tuple",
                                state |-> sh.state,
                                parts |-> << SubSeq(training_data, 1, n - 1),
                                             SubSeq(testing_data, 1, n - 1),
                                             training_data[n],
                                             testing_data[n] >>]
                      ELSE [err |-> "none", kind |-> "tuple",
                            state |-> sh.state,
                            parts |-> << SubSeq(flattened_data, 1, n - 1),
                                         flattened_data[n] >>]

(***************************************************************************)
(* prep/equidistancing.py                                                  *)
(***************************************************************************)
SetMin(S) == CHOOSE x \in S : \A y \in S : x <= y

SetMax(S) == CHOOSE x \in S : \A y \in S : x >= y

RECURSIVE SortedSeq(_)
SortedSeq(S) ==
    IF S = {} THEN <<>> ELSE <<SetMin(S)>> \o SortedSeq(S \ {SetMin(S)})

\* a faulty variant: the index of the last occurrence is returned
np_unique_last_index(a) ==
    LET values == SortedSeq({a[i] : i \in 1..Len(a)})
    IN  [values |-> values,
         indices |-> [j \in 1..Len(values) |->
                         SetMax({i \in 1..Len(a) : a[i] = values[j]}) - 1]]

\* np.unique(a, return_index=True): the sorted distinct values and, for
\* each, the 0-based index of its first occurrence
np_unique(a) ==
    LET values == SortedSeq({a[i] : i \in 1..Len(a)})
    IN  [values |-> values,
         indices |-> [j \in 1..Len(values) |->
                         SetMin({i \in 1..Len(a) : a[i] = values[j]}) - 1]]

\* a faulty variant: the last point is left out
np_arange_one_short(start, stop, step) ==
    LET n == IF stop <= start + step THEN 0 ELSE (stop - start - 1) \div step
    IN  [i \in 1..n |-> start + (i - 1) * step]

\* np.arange(start, stop, step) for step > 0: ceil((stop - start) / step) points
np_arange(start, stop, step) ==
    LET n == IF stop <= start THEN 0 ELSE (stop - start + step - 1) \div step
    IN  [i \in 1..n |-> start + (i - 1) * step]

\* np.interp(x, xp, fp) at one point x, for increasing xp; the sample
\* values of the model make the quotient exact
np_interp_at(x, xp, fp) ==
    IF x <= xp[1] THEN fp[1]
    ELSE IF x >= xp[Len(xp)] THEN fp[Len(xp)]
    ELSE LET i == CHOOSE j \in 1..(Len(xp) - 1) : xp[j] <= x /\ x < xp[j + 1]
         IN  fp[i] + ((x - xp[i]) * (fp[i + 1] - fp[i])) \div (xp[i + 1] - xp[i])

np_interp(x, xp, fp) == [i \in 1..Len(x) |-> np_interp_at(x[i], xp, fp)]

\* the keys of d other than "time", in order
RECURSIVE NonTimeEntries(_)
NonTimeEntries(d) ==
    IF Len(d) = 0 THEN <<>>
    ELSE IF d[1].k = "time" THEN NonTimeEntries(Tail(d))
    ELSE <<d[1]>> \o NonTimeEntries(Tail(d))

apply_equidistancing(cycle_values, interval_length) ==
    IF ~DictHas(cycle_values, "time")
    THEN [err |-> "KeyError"]
    ELSE LET time_values == DictGet(cycle_values, "time")
             u == np_unique(time_values)
         IN  IF Len(time_values) = 0
             THEN [err |-> "ValueError"]
             ELSE LET unique_times == u.values
                      unique_indices == u.indices
                      full_time_range ==
                          np_arange(unique_times[1],
                                    unique_times[Len(unique_times)] + interval_length,
                                    interval_length)
                      others == NonTimeEntries(cycle_values)
                  IN  IF \E e \in 1..Len(others) :
                             \E j \in 1..Len(unique_indices) :
                                 unique_indices[j] >= Len(others[e].v)
                      THEN [err |-> "IndexError"]
                      ELSE LET mean_values(e) ==
                                   [j \in 1..Len(unique_indices) |->
                                       others[e].v[unique_indices[j] + 1]]
                               interpolated ==
                                   [e \in 1..Len(others) |->
                                       [k |-> others[e].k,
                                        v |-> np_interp(full_time_range,
                                                        unique_times,
                                                        mean_values(e))]]
                           IN  [err |-> "none",
                                values |-> Append(interpolated,
                                                  [k |-> "time",
                                                   v |-> full_time_range]),
                                initial_length |-> Len(time_values),
                                final_length |-> Len(full_time_range)]

(***************************************************************************)
(* prep/converting.py: apply_conversion on the value apply_split returned  *)
(***************************************************************************)
\* data[i] = val (0-based i): item assignment, which a tuple does not support
SetItem(data, i, val) ==
    IF data.kind = "tuple"
    THEN [err |-> "TypeError"]
    ELSE [data EXCEPT !.parts[i + 1] = val]

\* the containers themselves are not modelled: np.array(d) keeps the entries
apply_conversion(data, result_format, return_format) ==
    LET labelled ==
            IF result_format = "binary"
            THEN IF Len(data.parts) = 4
                 THEN LET d2 == SetItem(data, 2, convert_to_binary(data.parts[3]))
                      IN  IF d2.err # "none" THEN d2
                          ELSE SetItem(d2, 3, convert_to_binary(data.parts[4]))
                 ELSE SetItem(data, 1, convert_to_binary(data.parts[2]))
            ELSE IF result_format # "raw"
            THEN [err |-> "ValueError"]
            ELSE data
    IN  IF labelled.err # "none" THEN [err |-> labelled.err]
        ELSE IF return_format = "numpy_array"
        THEN [err |-> "none", kind |-> "list", parts |-> labelled.parts]
        ELSE IF return_format = "nested_list"
        THEN [err |-> "none", kind |-> labelled.kind, parts |-> labelled.parts]
        ELSE [err |-> "ValueError"]

(***************************************************************************)
(* load/from_directory.py                                                  *)
(***************************************************************************)
\* {k: [] for k in tightening_values}
RECURSIVE EmptyChannels(_)
EmptyChannels(tightening_values) ==
    IF Len(tightening_values) = 0 THEN <<>>
    ELSE DictSet(EmptyChannels(SubSeq(tightening_values, 1,
                                      Len(tightening_values) - 1)),
                 tightening_values[Len(tightening_values)], <<>>)

\* step[KN.graph].get(f"{value} values", [])
GraphGet(graph, value) == IF DictHas(graph, value) THEN DictGet(graph, value) ELSE <<>>

\* for value in tightening_values: all_cycle_values[value].extend(...)
RECURSIVE ExtendChannels(_, _, _)
ExtendChannels(all_cycle_values, graph, tightening_values) ==
    IF Len(tightening_values) = 0 THEN all_cycle_values
    ELSE LET value == Head(tightening_values)
         IN  ExtendChannels(
                 DictSet(all_cycle_values, value,
                         DictGet(all_cycle_values, value) \o GraphGet(graph, value)),
                 graph, Tail(tightening_values))

\* [file_steps[step_idx - 1] for step_idx in tightening_steps
\*                           if step_idx <= len(file_steps)]
RECURSIVE SelectedSteps(_, _)
SelectedSteps(file_steps, tightening_steps) ==
    IF Len(tightening_steps) = 0 THEN <<>>
    ELSE IF Head(tightening_steps) <= Len(file_steps)
    THEN <<file_steps[Head(tightening_steps)]>>
             \o SelectedSteps(file_steps, Tail(tightening_steps))
    ELSE SelectedSteps(file_steps, Tail(tightening_steps))

\* the extraction loop over the selected steps; a step is None-or-graph
RECURSIVE ExtractSteps(_, _, _)
ExtractSteps(all_cycle_values, steps, tightening_values) ==
    IF Len(steps) = 0 THEN [err |-> "none", values |-> all_cycle_values]
    ELSE IF Head(steps).graph = None THEN [err |-> "KeyError"]
    ELSE ExtractSteps(
             ExtendChannels(all_cycle_values, Head(steps).graph[1],
                            tightening_values),
             Tail(steps), tightening_values)

\* the pairing of connect/to_directory.py: two records of an id per cycle
CycleTested_paired(count) == (count - 1) \div 2 + 1

\* the number the loop tests against tightening_cycles
CycleTested(count) == count

\* all_cycle_counts[file_id] in tightening_cycles
InList(x, list) == \E i \in 1..Len(list) : list[i] = x

ChannelLengths(d) == [i \in 1..Len(d) |-> Len(d[i].v)]

\* lines 153-174: the optional stages on one record's channel map; trace
\* lists the stages in the order they ran, lens the channel lengths each
\* stage was given
RunPadding(c, values, trace, lens) ==
    IF c.padding_value # None /\ c.padding_position # None
    THEN LET p == apply_padding(values, c.padding_value[1], c.padding_position[1],
                                c.target_length)
         IN  IF p.err # "none"
             THEN [err |-> p.err, trace |-> Append(trace, "padding")]
             ELSE [err |-> "none", values |-> p.values,
                   trace |-> Append(trace, "padding"),
                   lens |-> Append(lens, ChannelLengths(values))]
    ELSE [err |-> "none", values |-> values, trace |-> trace, lens |-> lens]

\* a faulty variant: padding runs before truncating
RunTruncating_after_padding(c, values, trace, lens) ==
    LET p == RunPadding(c, values, trace, lens)
    IN  IF p.err # "none" THEN p
        ELSE IF c.target_length # None /\ c.cutoff_position # None
        THEN LET t == apply_truncating(p.values, c.target_length[1],
                                       c.cutoff_position[1])
             IN  IF t.err # "none"
                 THEN [err |-> t.err, trace |-> Append(p.trace, "truncating")]
                 ELSE [err |-> "none", values |-> t.values,
                       trace |-> Append(p.trace, "truncating"),
                       lens |-> Append(p.lens, ChannelLengths(p.values))]
        ELSE p

RunTruncating(c, values, trace, lens) ==
    IF c.target_length # None /\ c.cutoff_position # None
    THEN LET t == apply_truncating(values, c.target_length[1], c.cutoff_position[1])
         IN  IF t.err # "none"
             THEN [err |-> t.err, trace |-> Append(trace, "truncating")]
             ELSE RunPadding(c, t.values, Append(trace, "truncating"),
                             Append(lens, ChannelLengths(values)))
    ELSE RunPadding(c, values, trace, lens)

RunStages(c, values) ==
    IF c.equidistancing_enabled
    THEN LET e == apply_equidistancing(values, TimeInterval)
         IN  IF e.err # "none"
             THEN [err |-> e.err, trace |-> <<"equidistancing">>]
             ELSE RunTruncating(c, e.values, <<"equidistancing">>,
                                <<ChannelLengths(values)>>)
    ELSE RunTruncating(c, values, <<>>, <<>>)

\* a faulty variant: the label of the record is not appended
AppendRecord_label_dropped(buffers, values, tightening_values, file_label) ==
    [i \in 1..Len(buffers) |->
        IF i = Len(buffers)
        THEN buffers[i]
        ELSE Append(buffers[i], DictGet(values, tightening_values[i]))]

\* for i, value in enumerate(tightening_values):
\*     return_values[i].append(all_cycle_values[value])
\* return_values[-1].append(file_label)
AppendRecord(buffers, values, tightening_values, file_label) ==
    [i \in 1..Len(buffers) |->
        IF i = Len(buffers)
        THEN Append(buffers[i], file_label)
        ELSE Append(buffers[i], DictGet(values, tightening_values[i]))]

(***************************************************************************)
(* Inputs of the unit harnesses                                            *)
(***************************************************************************)
SampleVals == {1, 2}

PadVals == {0, 9}

Positions == {"pre", "post"}

KeyLists == {<<"torque">>, <<"time", "torque">>, <<"torque", "angle">>}

\* every dict with one of the key lists and sample sequences of bounded length
ChannelMaps ==
    UNION {
        {[i \in 1..Len(keys) |-> [k |-> keys[i], v |-> vs[i]]] :
            vs \in [1..Len(keys) -> SeqsUpTo(SampleVals, MaxLen)]} :
        keys \in KeyLists}

Pending == [err |-> "pending"]

NoCall == [fn |-> "none"]

\* the from_directory variables while a unit harness runs
PipelineIdle ==
    /\ cfg = None
    /\ all_cycle_counts = <<>>
    /\ return_values = <<>>
    /\ pc = "idle"
    /\ seen = <<>>
    /\ last = None
    /\ result = Pending

PipelineUnchanged ==
    UNCHANGED <<cfg, all_cycle_counts, return_values, pc, seen, last, result>>

(***************************************************************************)
(* Unit harness of apply_truncating                                        *)
(***************************************************************************)
InitTrunc ==
    /\ PipelineIdle
    /\ rng = 0
    /\ splitRef = None
    /\ ret = Pending
    /\ call \in [fn : {"apply_truncating"},
                 cycle_values : ChannelMaps,
                 target_length : 1..MaxTarget,
                 position : Positions]

CallTruncating ==
    /\ call.fn = "apply_truncating"
    /\ ret = Pending
    /\ ret' = apply_truncating(call.cycle_values, call.target_length, call.position)
    /\ UNCHANGED <<call, rng, splitRef>>
    /\ PipelineUnchanged

NextTrunc == CallTruncating

SpecTrunc == InitTrunc /\ [][NextTrunc]_vars

(***************************************************************************)
(* Unit harness of apply_padding                                           *)
(***************************************************************************)
InitPad ==
    /\ PipelineIdle
    /\ rng = 0
    /\ splitRef = None
    /\ ret = Pending
    /\ call \in [fn : {"apply_padding"},
                 cycle_values : ChannelMaps,
                 padding_val : PadVals,
                 position : Positions,
                 target_length : 1..MaxTarget]

CallPadding ==
    /\ call.fn = "apply_padding"
    /\ ret = Pending
    /\ ret' = apply_padding(call.cycle_values, call.padding_val, call.position,
                            Some(call.target_length))
    /\ UNCHANGED <<call, rng, splitRef>>
    /\ PipelineUnchanged

NextPad == CallPadding

SpecPad == InitPad /\ [][NextPad]_vars

(***************************************************************************)
(* Unit harness of convert_to_binary                                       *)
(***************************************************************************)
MaxLabels == 4

Labels == {"OK", "NOK", "nok"}

InitConv ==
    /\ PipelineIdle
    /\ rng = 0
    /\ splitRef = None
    /\ ret = Pending
    /\ call \in [fn : {"convert_to_binary"}, data : SeqsUpTo(Labels, MaxLabels)]

CallConvertToBinary ==
    /\ call.fn = "convert_to_binary"
    /\ ret = Pending
    /\ ret' = [err |-> "none", values |-> convert_to_binary(call.data)]
    /\ UNCHANGED <<call, rng, splitRef>>
    /\ PipelineUnchanged

NextConv == CallConvertToBinary

SpecConv == InitConv /\ [][NextConv]_vars

(***************************************************************************)
(* from_directory: the enumerated records and the configurations           *)
(***************************************************************************)
Ids == {"a", "b"}

Graph(time, torque) ==
    Some(<<[k |-> "time", v |-> time], [k |-> "torque", v |-> torque]>>)

StepA == [graph |-> Graph(<<0, 12>>, <<1, 2>>)]

StepB == [graph |-> Graph(<<24, 36>>, <<2, 1>>)]

\* a step whose torque sequence is shorter than its time sequence
StepC == [graph |-> Graph(<<0, 12>>, <<1>>)]

\* a step whose graph has no torque values
StepE == [graph |-> Some(<<[k |-> "time", v |-> <<0>>]>>)]

\* a step without graph data
StepD == [graph |-> None]

\* what get_dict_from_json returns for the files of the directory
Records ==
    { [id |-> Some("a"), label |-> Some("OK"),  steps |-> Some(<<StepA>>)],
      [id |-> Some("a"), label |-> Some("NOK"), steps |-> Some(<<StepA, StepB>>)],
      [id |-> Some("b"), label |-> Some("OK"),  steps |-> Some(<<StepC>>)],
      [id |-> Some("b"), label |-> Some("NOK"), steps |-> Some(<<>>)],
      [id |-> Some("b"), label |-> Some("NOK"), steps |-> Some(<<StepE, StepD>>)],
      [id |-> None,      label |-> Some("OK"),  steps |-> Some(<<StepA>>)],
      [id |-> Some("a"), label |-> None,        steps |-> Some(<<StepA>>)],
      [id |-> Some("a"), label |-> Some("OK"),  steps |-> None] }

BaseConfig ==
    [tightening_steps |-> <<1, 2, 3, 4>>,
     tightening_cycles |-> <<1, 2>>,
     tightening_values |-> <<"time", "torque">>,
     equidistancing_enabled |-> FALSE,
     target_length |-> None,
     cutoff_position |-> None,
     padding_value |-> None,
     padding_position |-> None,
     split_ratio |-> None,
     split_seed |-> None,
     return_format |-> "nested_list",
     result_format |-> "raw"]

OptionalPositions == {None} \cup {Some(p) : p \in Positions}

\* validated configurations: one family per group of parameters
SelectionConfigs ==
    {[BaseConfig EXCEPT !.tightening_steps = st,
                        !.tightening_cycles = cy,
                        !.tightening_values = va] :
        st \in {<<1>>, <<2, 1>>, <<1, 1>>, <<1, 2, 3, 4>>},
        cy \in {<<1>>, <<2>>, <<1, 2>>},
        va \in {<<"time", "torque">>, <<"torque">>}}

\* check_equidistancing: resampling needs the time channel
LengthConfigs ==
    {c \in {[BaseConfig EXCEPT !.tightening_values = va,
                               !.equidistancing_enabled = eq,
                               !.target_length = tl,
                               !.cutoff_position = cp,
                               !.padding_value = pv,
                               !.padding_position = pp] :
                va \in {<<"time", "torque">>, <<"torque">>},
                eq \in BOOLEAN,
                tl \in {None} \cup {Some(n) : n \in 1..MaxTarget},
                cp \in OptionalPositions,
                pv \in {None, Some(0)},
                pp \in OptionalPositions} :
        c.equidistancing_enabled => InList("time", c.tightening_values)}

OutputConfigs ==
    {[BaseConfig EXCEPT !.split_ratio = sr,
                        !.split_seed = ss,
                        !.result_format = rf] :
        sr \in {None, Some(<<1, 2>>)},
        ss \in {None, Some(1)},
        rf \in {"raw", "binary"}}

Configs == SelectionConfigs \cup LengthConfigs \cup OutputConfigs

\* generator states the process may be in when from_directory is called
PriorRngStates == {0, 11}

\* the generator is used after the loop only: its prior state is varied for
\* the configurations that vary the output stage
PriorRngStatesOf(c) == IF c \in OutputConfigs THEN PriorRngStates ELSE {0}

(***************************************************************************)
(* from_directory: the state machine                                       *)
(***************************************************************************)
\* file.get(KN.id) of a record: None is a dict key like any other
FileIds == {None} \cup {Some(i) : i \in Ids}

\* all_cycle_counts = {}, read with .get(file_id, 0)
NoCounts == [i \in FileIds |-> 0]

Init ==
    /\ cfg \in Configs
    /\ all_cycle_counts = NoCounts
    /\ return_values = [i \in 1..(Len(cfg.tightening_values) + 1) |-> <<>>]
    /\ pc = "loop"
    /\ seen = <<>>
    /\ last = None
    /\ result = Pending
    /\ rng \in PriorRngStatesOf(cfg)
    /\ call = NoCall
    /\ ret = Pending
    /\ splitRef = None

\* a faulty variant: a record without 'id code' is processed
WellFormed_id_unchecked(file) == file.label # None /\ file.steps # None

\* not (file_id is None or file_label is None or file_steps is None)
WellFormed(file) == file.id # None /\ file.label # None /\ file.steps # None

\* a faulty variant: the counter of an id stays at one
NextCount_saturating(counts, file_id) ==
    IF counts[file_id] = 0 THEN 1 ELSE counts[file_id]

\* all_cycle_counts.get(file_id, 0) + 1 (line 134)
NextCount(counts, file_id) == counts[file_id] + 1

\* one iteration of the loop over all_file_names (lines 116-181); seen and
\* last record what the iteration did
LoadRecord(file) ==
    /\ pc = "loop"
    /\ UNCHANGED <<cfg, rng, call, ret, splitRef>>
    /\ IF ~WellFormed(file)
       THEN /\ seen' = Append(seen, [id |-> file.id, ok |-> FALSE, kept |-> FALSE])
            /\ last' = Some([kind |-> "skipped"])
            /\ UNCHANGED <<all_cycle_counts, return_values, pc, result>>
       ELSE LET file_id == file.id
                file_steps == file.steps[1]
                count == NextCount(all_cycle_counts, file_id)
                tested == CycleTested(count)
            IN  /\ all_cycle_counts' = [all_cycle_counts EXCEPT ![file_id] = count]
                /\ IF ~InList(tested, cfg.tightening_cycles)
                   THEN /\ seen' = Append(seen, [id |-> file_id, ok |-> TRUE,
                                                 kept |-> FALSE])
                        /\ last' = Some([kind |-> "filtered", id |-> file_id,
                                         tested |-> tested])
                        /\ UNCHANGED <<return_values, pc, result>>
                   ELSE LET x == ExtractSteps(
                                     EmptyChannels(cfg.tightening_values),
                                     SelectedSteps(file_steps, cfg.tightening_steps),
                                     cfg.tightening_values)
                            r == IF x.err # "none"
                                 THEN [err |-> x.err, trace |-> <<"extraction">>]
                                 ELSE RunStages(cfg, x.values)
                        IN  IF r.err # "none"
                            THEN /\ seen' = Append(seen, [id |-> file_id,
                                                          ok |-> TRUE,
                                                          kept |-> FALSE])
                                 /\ last' = Some([kind |-> "raised",
                                                  id |-> file_id,
                                                  tested |-> tested,
                                                  steps |-> file_steps,
                                                  extracted |->
                                                      IF x.err # "none" THEN <<>>
                                                      ELSE ChannelLengths(x.values),
                                                  trace |-> r.trace])
                                 /\ pc' = "error"
                                 /\ result' = [err |-> r.err]
                                 /\ UNCHANGED return_values
                            ELSE /\ seen' = Append(seen, [id |-> file_id,
                                                          ok |-> TRUE,
                                                          kept |-> TRUE])
                                 /\ last' = Some([kind |-> "retained",
                                                  id |-> file_id,
                                                  tested |-> tested,
                                                  steps |-> file_steps,
                                                  extracted |->
                                                      ChannelLengths(x.values),
                                                  trace |-> r.trace,
                                                  lens |-> r.lens])
                                 /\ return_values' =
                                        AppendRecord(return_values, r.values,
                                                     cfg.tightening_values,
                                                     file.label[1])
                                 /\ UNCHANGED <<pc, result>>

\* the directory lists at most MaxFiles files
Load == Len(seen) < MaxFiles /\ \E file \in Records : LoadRecord(file)

\* after the loop: apply_split, then apply_conversion (lines 183-201)
Finish ==
    /\ pc = "loop"
    /\ LET sp == apply_split(return_values, cfg.split_ratio, cfg.split_seed, rng)
           cv == IF sp.err # "none" THEN [err |-> sp.err]
                 ELSE apply_conversion(sp, cfg.result_format, cfg.return_format)
       IN  /\ rng' = sp.state
           /\ result' = cv
           /\ pc' = IF cv.err = "none" THEN "done" ELSE "error"
    /\ UNCHANGED <<cfg, all_cycle_counts, return_values, seen, last,
                   call, ret, splitRef>>

Next == Load \/ Finish

Spec == Init /\ [][Next]_vars

(***************************************************************************)
(* from_directory on a directory that holds many records of one id, with   *)
(* the cycle selection "all"                                               *)
(***************************************************************************)
MaxOccurrences == 51

LastValidCycle == 50

\* check_and_update_cycles("all"): list(range(1, 51))
valid_cycles == [i \in 1..LastValidCycle |-> i]

CycleConfigs ==
    {[BaseConfig EXCEPT !.tightening_cycles = valid_cycles,
                        !.tightening_steps = st,
                        !.tightening_values = va] :
        st \in {<<1>>, <<1, 2, 3, 4>>},
        va \in {<<"torque">>, <<"time", "torque">>}}

\* the record every file of the directory holds
RepeatedRecord ==
    [id |-> Some("a"), label |-> Some("OK"), steps |-> Some(<<StepA>>)]

InitCycles ==
    /\ cfg \in CycleConfigs
    /\ all_cycle_counts = NoCounts
    /\ return_values = [i \in 1..(Len(cfg.tightening_values) + 1) |-> <<>>]
    /\ pc = "loop"
    /\ seen = <<>>
    /\ last = None
    /\ result = Pending
    /\ rng \in PriorRngStates
    /\ call = NoCall
    /\ ret = Pending
    /\ splitRef = None

LoadRepeated == Len(seen) < MaxOccurrences /\ LoadRecord(RepeatedRecord)

NextCycles == LoadRepeated \/ Finish

SpecCycles == InitCycles /\ [][NextCycles]_vars

(***************************************************************************)
(* Properties of from_directory                                            *)
(***************************************************************************)
\* the number of well-formed records with this id among the enumerated ones
RECURSIVE Occurrences(_, _)
Occurrences(history, id) ==
    IF Len(history) = 0 THEN 0
    ELSE Occurrences(Tail(history), id)
             + (IF Head(history).ok /\ Head(history).id = id THEN 1 ELSE 0)

LastWellFormed == last # None /\ last[1].kind # "skipped"

\* C1: the cycle tested for the k-th well-formed record of an id is
\* ceil(k/2), and the record is retained iff that cycle is selected.
C1_CycleIsCeilHalf ==
    LastWellFormed =>
        LET k == Occurrences(seen, last[1].id)
            cycle == (k + 1) \div 2
        IN  /\ last[1].tested = cycle
            /\ last[1].kind = "filtered" <=> ~InList(cycle, cfg.tightening_cycles)

LengthNormalised ==
    /\ cfg.target_length # None
    /\ cfg.cutoff_position # None
    /\ cfg.padding_value # None
    /\ cfg.padding_position # None

\* C5: with truncation and padding both configured, every channel sequence
\* appended to a buffer has exactly target_length elements.
C5_FixedLength ==
    (pc # "idle" /\ LengthNormalised) =>
        \A c \in 1..Len(cfg.tightening_values) :
            \A i \in 1..Len(return_values[c]) :
                Len(return_values[c][i]) = cfg.target_length[1]

\* an empty record and a record of four samples, both brought to length 3
C5_Witness ==
    /\ pc = "loop"
    /\ LengthNormalised
    /\ cfg.target_length = Some(3)
    /\ Len(seen) = 2
    /\ seen[1].id = Some("b")
    /\ seen[1].kept
    /\ Len(return_values[1]) = 2
    /\ last[1].kind = "retained"
    /\ last[1].extracted = <<4, 4>>
    /\ Len(return_values[2][1]) = 3
    /\ Len(return_values[2][2]) = 3

\* the loop raised on the record it processed last
LoadRaised == last # None /\ last[1].kind = "raised"

\* the loop completed and apply_split and apply_conversion were called
Finished == pc \in {"done", "error"} /\ ~LoadRaised

Binarised(labels) == [i \in 1..Len(labels) |-> IF labels[i] = "NOK" THEN 1 ELSE 0]

\* C11: apply_conversion with result_format "binary" on the value apply_split
\* returned, as from_directory calls it, completes without error and returns
\* a result of the same arity whose label parts are binarised and whose
\* channel parts are those of the split.
C11_BinaryConversionCompletes ==
    (Finished /\ cfg.result_format = "binary") =>
        /\ result.err = "none"
        /\ \E s \in RngStates :
               LET sp == apply_split(return_values, cfg.split_ratio,
                                     cfg.split_seed, s)
               IN  /\ sp.state = rng
                   /\ Len(result.parts) = Len(sp.parts)
                   /\ IF Len(sp.parts) = 4
                      THEN result.parts = << sp.parts[1], sp.parts[2],
                                             Binarised(sp.parts[3]),
                                             Binarised(sp.parts[4]) >>
                      ELSE result.parts = << sp.parts[1], Binarised(sp.parts[2]) >>

\* the number of records retained among the enumerated ones
RECURSIVE Kept(_)
Kept(history) ==
    IF Len(history) = 0 THEN 0
    ELSE Kept(Tail(history)) + (IF Head(history).kept THEN 1 ELSE 0)

\* C13: after any prefix of the enumerated records every channel buffer and
\* the label buffer have the same outer length, the number of records
\* retained so far; after splitting, the train parts have one common length
\* and the test parts have one common length.
C13_BuffersAligned ==
    pc # "idle" =>
        /\ Len(return_values) = Len(cfg.tightening_values) + 1
        /\ \A c \in 1..Len(return_values) : Len(return_values[c]) = Kept(seen)
        /\ pc = "done" =>
               IF Len(result.parts) = 4
               THEN /\ Len(result.parts[1]) = Len(cfg.tightening_values)
                    /\ Len(result.parts[2]) = Len(cfg.tightening_values)
                    /\ \A c \in 1..Len(cfg.tightening_values) :
                           /\ Len(result.parts[1][c]) = Len(result.parts[3])
                           /\ Len(result.parts[2][c]) = Len(result.parts[4])
                    /\ Len(result.parts[3]) + Len(result.parts[4]) = Kept(seen)
               ELSE /\ Len(result.parts[1]) = Len(cfg.tightening_values)
                    /\ \A c \in 1..Len(cfg.tightening_values) :
                           Len(result.parts[1][c]) = Kept(seen)
                    /\ Len(result.parts[2]) = Kept(seen)

\* three records enumerated, one of them not retained, and the two retained
\* ones split into one train and one test record
C13_Witness ==
    /\ pc = "done"
    /\ Len(seen) = 3
    /\ ~seen[2].kept
    /\ Kept(seen) = 2
    /\ Len(result.parts) = 4
    /\ Len(result.parts[1][2]) = 1
    /\ Len(result.parts[4]) = 1

LacksRequiredField(file) ==
    file.id = None \/ file.label = None \/ file.steps = None

\* C14: the iteration on a record that lacks 'id code', 'result' or
\* 'tightening steps' appends nothing to any buffer, counts no cycle, raises
\* nothing and leaves the loop running for the records after it.
C14_MissingKeysSkipped ==
    [][\A file \in Records :
           (LacksRequiredField(file) /\ LoadRecord(file)) =>
               /\ return_values' = return_values
               /\ all_cycle_counts' = all_cycle_counts
               /\ result' = result
               /\ pc' = "loop"]_vars

\* a record without id and a record without label or steps were skipped, and
\* the record after them was retained
C14_Witness ==
    /\ pc = "loop"
    /\ Len(seen) = 3
    /\ seen[1].id = None
    /\ ~seen[1].ok
    /\ seen[2].id = Some("a")
    /\ ~seen[2].ok
    /\ seen[3].kept
    /\ last[1].kind = "retained"
    /\ all_cycle_counts[last[1].id] = 1
    /\ Len(return_values[1]) = 1

\* the loop went through extraction and the stages for its last record
LastProcessed == last # None /\ last[1].kind \in {"retained", "raised"}

\* the defects of content: no step at all, none of the selected steps
\* present, a selected step without graph data
DefectiveContent(file_steps, tightening_steps) ==
    \/ Len(file_steps) = 0
    \/ \A i \in 1..Len(tightening_steps) : tightening_steps[i] > Len(file_steps)
    \/ \E i \in 1..Len(tightening_steps) :
           /\ tightening_steps[i] <= Len(file_steps)
           /\ file_steps[tightening_steps[i]].graph = None

\* C15: a record that has the three required fields but defective content
\* raises nothing, under any valid configuration: the loop goes on with the
\* remaining records.
C15_DefectsAreIsolated ==
    (LastProcessed /\ DefectiveContent(last[1].steps, cfg.tightening_steps)) =>
        last[1].kind = "retained"

\* C16: a record whose extracted channel sequences have different lengths
\* passes extraction, equidistancing, truncation and padding without error.
C16_UnequalLengthsTolerated ==
    (LastProcessed /\ \E i, j \in 1..Len(last[1].extracted) :
                          last[1].extracted[i] # last[1].extracted[j]) =>
        last[1].kind = "retained"

\* C17: with the cycle selection "all" every record that has the three
\* required fields is retained, however often its id occurs.
C17_AllCyclesRetainsEvery ==
    (pc # "idle" /\ cfg.tightening_cycles = valid_cycles) =>
        \A i \in 1..Len(seen) : seen[i].ok => seen[i].kept

\* the samples of one channel from the selected steps that the record has,
\* in ascending step order, each step once
RECURSIVE AscendingConcat(_, _, _)
AscendingConcat(file_steps, tightening_steps, value) ==
    IF Len(file_steps) = 0 THEN <<>>
    ELSE AscendingConcat(SubSeq(file_steps, 1, Len(file_steps) - 1),
                         tightening_steps, value)
             \o (IF InList(Len(file_steps), tightening_steps)
                 THEN GraphGet(file_steps[Len(file_steps)].graph[1], value)
                 ELSE <<>>)

\* C18: the flat sequence of every requested channel of a retained record is
\* the concatenation of the channel's samples from the selected steps in
\* ascending step order, each existing selected step once, whatever the
\* order and the repetitions of the selector list.
C18_StepsInAscendingOrder ==
    (last # None /\ last[1].kind = "retained" /\ last[1].trace = <<>>) =>
        \A c \in 1..Len(cfg.tightening_values) :
            return_values[c][Len(return_values[c])] =
                AscendingConcat(last[1].steps, cfg.tightening_steps,
                                cfg.tightening_values[c])

(***************************************************************************)
(* Properties of apply_padding                                             *)
(***************************************************************************)
PadReturned == call.fn = "apply_padding" /\ ret # Pending /\ ret.err = "none"

PadRaised == call.fn = "apply_padding" /\ ret # Pending /\ ret.err # "none"

\* the padding value repeated n times before or after s, as position says
PaddedTo(s, val, position, n) ==
    IF position = "pre" THEN Repeat(val, n) \o s ELSE s \o Repeat(val, n)

\* C6: apply_padding on a channel sequence whose length is already greater
\* than or equal to target_length performs no padding: the call completes
\* without error and a non-time channel of that length is returned unchanged.
C6_NoPaddingWhenLongEnough ==
    (call.fn = "apply_padding" /\ ret # Pending) =>
        \A i \in 1..Len(call.cycle_values) :
            Len(call.cycle_values[i].v) >= call.target_length =>
                /\ ret.err = "none"
                /\ call.cycle_values[i].k # "time" =>
                       ret.values[i].v = call.cycle_values[i].v

C8_TimeIsSyntheticGrid ==
    PadReturned =>
        /\ DictHas(ret.values, "time")
        /\ DictGet(ret.values, "time") =
               [j \in 1..call.target_length |-> (j - 1) * 12]

\* measured time values that are not on the grid were replaced
C8_Witness ==
    /\ PadReturned
    /\ call.target_length = 3
    /\ DictHas(call.cycle_values, "time")
    /\ DictGet(call.cycle_values, "time") = <<2, 1>>
    /\ DictGet(ret.values, "time") = <<0, 12, 24>>

(***************************************************************************)
(* Properties of apply_truncating                                          *)
(***************************************************************************)
TruncReturned == call.fn = "apply_truncating" /\ ret # Pending

\* C9: for a positive target length L apply_truncating returns the first
\* min(L, len(s)) elements of every channel s for "post" and the last
\* min(L, len(s)) elements for "pre", and reports final_len = min(initial_len, L).
C9_TruncatingKeepsWindow ==
    TruncReturned =>
        /\ ret.err = "none"
        /\ ret.final_length = Min(ret.initial_length, call.target_length)
        /\ ret.initial_length = Len(call.cycle_values[1].v)
        /\ Len(ret.values) = Len(call.cycle_values)
        /\ \A i \in 1..Len(call.cycle_values) :
               LET s == call.cycle_values[i].v
                   m == Min(call.target_length, Len(s))
                   out == ret.values[i].v
               IN  /\ ret.values[i].k = call.cycle_values[i].k
                   /\ Len(out) = m
                   /\ \A j \in 1..m :
                          out[j] = IF call.position = "post"
                                   THEN s[j]
                                   ELSE s[Len(s) - m + j]

\* a "pre" truncation that drops the head of a longer sequence
C9_Witness ==
    /\ TruncReturned
    /\ call.position = "pre"
    /\ call.target_length = 2
    /\ call.cycle_values[1].v = <<1, 2, 2>>
    /\ ret.values[1].v = <<2, 2>>

(***************************************************************************)
(* Properties of convert_to_binary                                         *)
(***************************************************************************)
\* C10: the binary label sequence has the length and order of the input;
\* position i holds 1 if the input label at i is "NOK" and 0 for any other
\* value, so it depends on the input label at i only.
C10_BinaryLabels ==
    (call.fn = "convert_to_binary" /\ ret # Pending) =>
        /\ Len(ret.values) = Len(call.data)
        /\ \A i \in 1..Len(call.data) :
               /\ call.data[i] = "NOK" => ret.values[i] = 1
               /\ call.data[i] # "NOK" => ret.values[i] = 0

C10_Witness ==
    /\ call.fn = "convert_to_binary"
    /\ ret # Pending
    /\ call.data = <<"NOK", "nok", "OK", "NOK">>
    /\ ret.values = <<1, 0, 0, 1>>

(***************************************************************************)
(* Unit harness of apply_split: any number of calls, one after another,    *)
(* on the process-wide generator, which starts in an unknown state         *)
(***************************************************************************)
Ratios == {<<1, 2>>, <<2, 3>>}

Seeds == {1, 2}

\* a buffer of n records: its channels and, last, its labels; every entry
\* names its channel and its record
SplitBuffer(channels, n) ==
    [c \in 1..(channels + 1) |-> [i \in 1..n |-> 10 * c + i]]

SplitBuffers == {SplitBuffer(2, n) : n \in 0..MaxRecords}

InitSplit ==
    /\ PipelineIdle
    /\ rng \in RngStates
    /\ splitRef = None
    /\ ret = Pending
    /\ call = NoCall

CallSplit ==
    \E data \in SplitBuffers,
       split_ratio \in {None} \cup {Some(r) : r \in Ratios},
       split_seed \in {None} \cup {Some(a) : a \in Seeds} :
        LET r == apply_split(data, split_ratio, split_seed, rng)
            isRepeat == /\ splitRef # None
                        /\ splitRef.data = data
                        /\ splitRef.split_ratio = split_ratio
                        /\ splitRef.split_seed = split_seed
        IN  /\ call' = [fn |-> "apply_split", data |-> data,
                        split_ratio |-> split_ratio, split_seed |-> split_seed,
                        repeats |-> isRepeat]
            /\ ret' = [err |-> r.err, parts |-> r.parts]
            /\ rng' = r.state
            /\ splitRef' =
                   IF splitRef = None
                   THEN IF split_seed # None
                        THEN [data |-> data, split_ratio |-> split_ratio,
                              split_seed |-> split_seed, parts |-> r.parts,
                              between |-> FALSE]
                        ELSE None
                   ELSE IF isRepeat
                        THEN splitRef
                        ELSE [splitRef EXCEPT !.between = TRUE]
            /\ PipelineUnchanged

NextSplit == CallSplit

SpecSplit == InitSplit /\ [][NextSplit]_vars

(***************************************************************************)
(* Properties of apply_split                                               *)
(***************************************************************************)
SplitReturned == call.fn = "apply_split" /\ ret.err = "none"

SplitRecords == Len(call.data[1])

\* the output column of buffer c: train part followed by test part
SplitOutput(c) ==
    IF Len(ret.parts) = 4
    THEN IF c = Len(call.data)
         THEN ret.parts[3] \o ret.parts[4]
         ELSE ret.parts[1][c] \o ret.parts[2][c]
    ELSE IF c = Len(call.data) THEN ret.parts[2] ELSE ret.parts[1][c]

\* floor(n * num / den): the integer f with f <= n*num/den < f + 1
FloorOfProduct(n, ratio) ==
    CHOOSE f \in 0..n : f * ratio[2] <= n * ratio[1] /\ n * ratio[1] < (f + 1) * ratio[2]

\* C2: for a buffer of N records and a ratio r in (0,1), every channel and
\* the labels get floor(N*r) train entries and N - floor(N*r) test entries.
C2_SplitSizes ==
    (SplitReturned /\ call.split_ratio # None) =>
        LET f == FloorOfProduct(SplitRecords, call.split_ratio[1])
        IN  /\ Len(ret.parts) = 4
            /\ Len(ret.parts[1]) = Len(call.data) - 1
            /\ Len(ret.parts[2]) = Len(call.data) - 1
            /\ \A c \in 1..(Len(call.data) - 1) :
                   /\ Len(ret.parts[1][c]) = f
                   /\ Len(ret.parts[2][c]) = SplitRecords - f
                   /\ Len(ret.parts[1][c]) + Len(ret.parts[2][c]) = SplitRecords
            /\ Len(ret.parts[3]) = f
            /\ Len(ret.parts[4]) = SplitRecords - f

\* three records at ratio 2/3: two train entries and one test entry
C2_Witness ==
    /\ SplitReturned
    /\ call.split_ratio = Some(<<2, 3>>)
    /\ SplitRecords = 3
    /\ Len(ret.parts[3]) = 2
    /\ Len(ret.parts[4]) = 1

IndexPermutations(n) ==
    {p \in [1..n -> 1..n] : \A i, j \in 1..n : i # j => p[i] # p[j]}

\* C3: the output is the input reordered by one permutation p, the same for
\* every channel and for the labels: out_c[k] = in_c[p(k)].
C3_OnePermutation ==
    SplitReturned =>
        \E p \in IndexPermutations(SplitRecords) :
            \A c \in 1..Len(call.data) :
                SplitOutput(c) = [k \in 1..SplitRecords |-> call.data[c][p[k]]]

\* a split of three records of two channels that moved the first record
C3_Witness ==
    /\ SplitReturned
    /\ SplitRecords = 3
    /\ Len(call.data) = 3
    /\ Len(ret.parts) = 4
    /\ SplitOutput(1)[1] # call.data[1][1]

\* C4: a call with the seed, buffer and ratio of an earlier seeded call
\* returns what that call returned, whatever was called in between.
C4_SeedDeterminesSplit ==
    (call.fn = "apply_split" /\ call.repeats) => ret.parts = splitRef.parts

\* a repeat of the reference call after other calls
C4_Witness ==
    /\ call.fn = "apply_split"
    /\ call.repeats
    /\ splitRef.between
    /\ Len(splitRef.data[1]) = 3
    /\ ret.parts = splitRef.parts

\* C12: apply_split returns four parts exactly when a ratio in (0,1) is
\* given and two parts when the ratio is None; in the two-part case every
\* channel of x_data, and y_data, holds all N input entries of its buffer,
\* for every N >= 0, and the call raises nothing.
C12_SplitArity ==
    call.fn = "apply_split" =>
        /\ ret.err = "none"
        /\ Len(ret.parts) = 4 <=> call.split_ratio # None
        /\ Len(ret.parts) = 2 <=> call.split_ratio = None
        /\ call.split_ratio = None =>
               /\ Len(ret.parts[1]) = Len(call.data) - 1
               /\ \A c \in 1..(Len(call.data) - 1) :
                      /\ Len(ret.parts[1][c]) = SplitRecords
                      /\ {ret.parts[1][c][k] : k \in 1..SplitRecords}
                             = {call.data[c][k] : k \in 1..SplitRecords}
               /\ Len(ret.parts[2]) = SplitRecords
               /\ {ret.parts[2][k] : k \in 1..SplitRecords}
                      = {call.data[Len(call.data)][k] : k \in 1..SplitRecords}

\* the empty buffer without a ratio, after a split of three records in four
\* parts: two empty channels and no labels
C12_Witness ==
    /\ SplitReturned
    /\ call.split_ratio = None
    /\ SplitRecords = 0
    /\ ret.parts = << <<<<>>, <<>>>>, <<>> >>
    /\ splitRef # None
    /\ splitRef.split_ratio # None
    /\ Len(splitRef.parts) = 4
    /\ Len(splitRef.data[1]) = 3

(***************************************************************************)
(* Unit harness of apply_equidistancing                                    *)
(***************************************************************************)
\* time values in ticks; 30 is off the 12-tick grid
EqTimes == {0, 12, 24, 30}

\* sample values whose interpolants at the grid points are whole numbers
EqSamples == {0, 60}

Intervals == {6, 12}

InitEq ==
    /\ PipelineIdle
    /\ rng = 0
    /\ splitRef = None
    /\ ret = Pending
    /\ \E time \in SeqsUpTo(EqTimes, MaxLen),
          torque \in SeqsUpTo(EqSamples, MaxLen),
          interval_length \in Intervals :
           call = [fn |-> "apply_equidistancing",
                   cycle_values |-> <<[k |-> "time", v |-> time],
                                      [k |-> "torque", v |-> torque]>>,
                   interval_length |-> interval_length]

CallEquidistancing ==
    /\ call.fn = "apply_equidistancing"
    /\ ret = Pending
    /\ ret' = apply_equidistancing(call.cycle_values, call.interval_length)
    /\ UNCHANGED <<call, rng, splitRef>>
    /\ PipelineUnchanged

NextEq == CallEquidistancing

SpecEq == InitEq /\ [][NextEq]_vars

(***************************************************************************)
(* Properties of apply_equidistancing                                      *)
(***************************************************************************)
EqCalled == call.fn = "apply_equidistancing" /\ ret # Pending

EqReturned == EqCalled /\ ret.err = "none"

EqTimeIn == DictGet(call.cycle_values, "time")

EqTimeSet == {EqTimeIn[j] : j \in 1..Len(EqTimeIn)}

\* C19: for a record with at least one time value the grid starts at the
\* minimum time value, its consecutive points are one interval apart, and
\* none of its points is greater than the maximum time value.
C19_GridWithinRange ==
    (EqReturned /\ Len(EqTimeIn) >= 1) =>
        LET grid == DictGet(ret.values, "time")
        IN  /\ Len(grid) >= 1
            /\ grid[1] = SetMin(EqTimeSet)
            /\ \A j \in 1..(Len(grid) - 1) :
                   grid[j + 1] - grid[j] = call.interval_length
            /\ \A j \in 1..Len(grid) : grid[j] <= SetMax(EqTimeSet)

\* the time values are min, min + i, ..., max for the interval i of the call
EqTimeIsGrid ==
    /\ Len(EqTimeIn) >= 1
    /\ \A j \in 1..Len(EqTimeIn) :
           EqTimeIn[j] = EqTimeIn[1] + (j - 1) * call.interval_length

FirstSample(channel, t) ==
    channel[SetMin({i \in 1..Len(EqTimeIn) : EqTimeIn[i] = t})]

\* x lies on the segment between the neighbouring distinct time values a < b
Neighbours(a, b, x) ==
    /\ a \in EqTimeSet
    /\ b \in EqTimeSet
    /\ a < b
    /\ a <= x
    /\ x <= b
    /\ ~\E c \in EqTimeSet : a < c /\ c < b

PyNone == [t |-> "none", n |-> 0, d |-> 1, s |-> "", l |-> <<>>]

PyInt(n) == [t |-> "int", n |-> n, d |-> 1, s |-> "", l |-> <<>>]

PyBool(b) == [t |-> "bool", n |-> IF b THEN 1 ELSE 0, d |-> 1, s |-> "", l |-> <<>>]

\* the float num/den
PyFloat(num, den) == [t |-> "float", n |-> num, d |-> den, s |-> "", l |-> <<>>]

PyStr(s) == [t |-> "str", n |-> 0, d |-> 1, s |-> s, l |-> <<>>]

PyList(items) == [t |-> "list", n |-> 0, d |-> 1, s |-> "", l |-> items]

IntList(ns) == PyList([i \in 1..Len(ns) |-> PyInt(ns[i])])

StrList(ss) == PyList([i \in 1..Len(ss) |-> PyStr(ss[i])])

ALL == PyStr("all")

\* isinstance(x, int): bool is a subclass of int
IsInstanceInt(x) == x.t \in {"int", "bool"}

Accepted(value) == [err |-> "none", value |-> value]

\* handle_error: raise ParameterValidationError(message)
handle_error == [err |-> "ParameterValidationError", value |-> PyNone]

\* the source paths of the model: a directory, files of three kinds, and a
\* path at which nothing exists
ExistingPaths == {"records", "records.db", "records.h5", "records.txt"}

check_source_path(source_path) ==
    IF source_path = PyNone THEN handle_error
    ELSE IF ~(source_path.t = "str" /\ source_path.s \in ExistingPaths)
    THEN handle_error
    ELSE Accepted(source_path)

\* the checks check_and_update_steps and check_and_update_cycles share:
\* "all", an int of the valid range, or a list of such ints
ResolveIntSelector(selector, last_valid) ==
    IF selector = ALL
    THEN Accepted(IntList([i \in 1..last_valid |-> i]))
    ELSE IF IsInstanceInt(selector)
    THEN IF selector.n \in 1..last_valid
         THEN Accepted(PyList(<<selector>>))
         ELSE handle_error
    ELSE IF selector.t = "list"
    THEN IF \A i \in 1..Len(selector.l) :
                IsInstanceInt(selector.l[i]) /\ selector.l[i].n \in 1..last_valid
         THEN Accepted(selector)
         ELSE handle_error
    ELSE handle_error

LastValidStep == 4

\* a faulty variant: a scalar step is passed on as it is
check_and_update_steps_scalar_kept(tightening_steps) ==
    IF IsInstanceInt(tightening_steps) /\ tightening_steps.n \in 1..LastValidStep
    THEN Accepted(tightening_steps)
    ELSE ResolveIntSelector(tightening_steps, LastValidStep)

check_and_update_steps(tightening_steps) ==
    ResolveIntSelector(tightening_steps, LastValidStep)

check_and_update_cycles(tightening_cycles) ==
    ResolveIntSelector(tightening_cycles, LastValidCycle)

valid_values == <<"time", "torque", "angle", "gradient">>

check_and_update_values(tightening_values) ==
    IF tightening_values = ALL
    THEN Accepted(StrList(valid_values))
    ELSE IF tightening_values.t = "str"
    THEN IF InList(tightening_values.s, valid_values)
         THEN Accepted(PyList(<<tightening_values>>))
         ELSE handle_error
    ELSE IF tightening_values.t = "list"
    THEN IF \A i \in 1..Len(tightening_values.l) :
                /\ tightening_values.l[i].t = "str"
                /\ InList(tightening_values.l[i].s, valid_values)
         THEN Accepted(tightening_values)
         ELSE handle_error
    ELSE handle_error

check_boolean_param(param) ==
    IF param.t # "bool" THEN handle_error ELSE Accepted(param)

\* a faulty variant: the cross-field rule is not checked
check_equidistancing_unchecked(equidistancing_enabled, tightening_values) ==
    Accepted(equidistancing_enabled)

\* equidistancing_enabled and "time" not in tightening_values
\*                        and tightening_values != ALL
check_equidistancing(equidistancing_enabled, tightening_values) ==
    IF /\ equidistancing_enabled = PyBool(TRUE)
       /\ ~\E i \in 1..Len(tightening_values.l) :
              tightening_values.l[i] = PyStr("time")
       /\ tightening_values # ALL
    THEN handle_error
    ELSE Accepted(equidistancing_enabled)

\* a faulty variant: zero is taken for a positive integer
check_positive_integer_zero_allowed(param) ==
    IF param # PyNone /\ (~IsInstanceInt(param) \/ param.n < 0)
    THEN handle_error
    ELSE Accepted(param)

check_positive_integer(param) ==
    IF param # PyNone /\ (~IsInstanceInt(param) \/ param.n <= 0)
    THEN handle_error
    ELSE Accepted(param)

check_choice_param(param, valid_choices) ==
    IF param # PyNone /\ ~(param.t = "str" /\ InList(param.s, valid_choices))
    THEN handle_error
    ELSE Accepted(param)

check_numeric_param(param) ==
    IF param # PyNone /\ param.t \notin {"int", "bool", "float"}
    THEN handle_error
    ELSE Accepted(param)

\* not isinstance(split_ratio, float) or not (0 < split_ratio < 1)
check_split_ratio(split_ratio) ==
    IF /\ split_ratio # PyNone
       /\ \/ split_ratio.t # "float"
          \/ ~(0 < split_ratio.n /\ split_ratio.n < split_ratio.d)
    THEN handle_error
    ELSE Accepted(split_ratio)

check_integer_param(param) ==
    IF param # PyNone /\ ~IsInstanceInt(param)
    THEN handle_error
    ELSE Accepted(param)

\* validate_and_update_params: the first failing check raises; the three
\* selectors are replaced by what their checks return
validate_and_update_params(params) ==
    LET steps == check_and_update_steps(params.tightening_steps)
        cycles == check_and_update_cycles(params.tightening_cycles)
        values == check_and_update_values(params.tightening_values)
        updated == [params EXCEPT !.tightening_steps = steps.value,
                                  !.tightening_cycles = cycles.value,
                                  !.tightening_values = values.value]
        checks ==
            << check_source_path(params.source_path),
               steps, cycles, values,
               check_boolean_param(params.equidistancing_enabled),
               check_equidistancing(params.equidistancing_enabled, values.value),
               check_positive_integer(params.target_length),
               check_choice_param(params.cutoff_position, <<"pre", "post">>),
               check_numeric_param(params.padding_value),
               check_choice_param(params.padding_position, <<"pre", "post">>),
               check_split_ratio(params.split_ratio),
               check_integer_param(params.split_seed),
               check_choice_param(params.return_format,
                                  <<"nested_list", "numpy_array">>),
               check_choice_param(params.result_format, <<"binary", "raw">>),
               check_boolean_param(params.logging_enabled),
               check_boolean_param(params.verbose) >>
    IN  IF \E i \in 1..Len(checks) : checks[i].err # "none"
        THEN [err |-> "ParameterValidationError", params |-> params]
        ELSE [err |-> "none", params |-> updated]

(***************************************************************************)
(* get_data.py: get_data behind the validate_parameter decorator           *)
(***************************************************************************)
\* the defaults of get_data's signature, with the directory as source
DefaultArgs ==
    [source_path |-> PyStr("records"),
     tightening_steps |-> ALL,
     tightening_cycles |-> ALL,
     tightening_values |-> StrList(<<"time", "torque">>),
     equidistancing_enabled |-> PyBool(FALSE),
     target_length |-> PyNone,
     cutoff_position |-> PyNone,
     padding_value |-> PyNone,
     padding_position |-> PyNone,
     split_ratio |-> PyNone,
     split_seed |-> PyNone,
     return_format |-> PyStr("nested_list"),
     result_format |-> PyStr("binary"),
     logging_enabled |-> PyBool(TRUE),
     verbose |-> PyBool(TRUE)]

\* {**default_args, **kwargs}: the calls of the model, one family per group
\* of keyword arguments
SourceCalls ==
    {[DefaultArgs EXCEPT !.source_path = sp] :
        sp \in {PyNone, PyStr("missing")} \cup {PyStr(e) : e \in ExistingPaths}}

StepCalls ==
    {[DefaultArgs EXCEPT !.tightening_steps = st, !.result_format = PyStr("raw")] :
        st \in {ALL, PyInt(1), PyInt(5), PyInt(0), IntList(<<2, 1>>),
                IntList(<<1, 5>>), PyStr("1"), PyList(<<PyStr("1")>>)}}

CycleCalls ==
    {[DefaultArgs EXCEPT !.tightening_cycles = cy, !.result_format = PyStr("raw")] :
        cy \in {ALL, PyInt(1), PyInt(LastValidCycle + 1), PyInt(0),
                IntList(<<1, 2>>), IntList(<<1, LastValidCycle + 1>>),
                PyFloat(1, 1)}}

ValueCalls ==
    {[DefaultArgs EXCEPT !.tightening_values = va,
                         !.equidistancing_enabled = eq,
                         !.result_format = PyStr("raw")] :
        va \in {ALL, PyStr("time"), PyStr("torque"), PyStr("speed"),
                StrList(<<"time", "torque">>), StrList(<<"torque">>),
                StrList(<<"torque", "speed">>), PyInt(1)},
        eq \in {PyBool(TRUE), PyBool(FALSE), PyInt(1)}}

LengthCalls ==
    {[DefaultArgs EXCEPT !.target_length = tl,
                         !.cutoff_position = cp,
                         !.padding_value = pv,
                         !.padding_position = pp,
                         !.result_format = PyStr("raw")] :
        tl \in {PyNone, PyInt(MaxTarget), PyInt(0), PyInt(-1), PyFloat(2, 1)},
        cp \in {PyNone, PyStr("pre"), PyStr("mid")},
        pv \in {PyNone, PyInt(0)},
        pp \in {PyNone, PyStr("post"), PyStr("mid")}}

OutputCalls ==
    {[DefaultArgs EXCEPT !.split_ratio = sr,
                         !.split_seed = ss,
                         !.result_format = rf] :
        sr \in {PyNone, PyFloat(1, 2), PyFloat(0, 1), PyFloat(1, 1),
                PyFloat(3, 2), PyInt(1)},
        ss \in {PyNone, PyInt(1), PyStr("1")},
        rf \in {PyStr("raw"), PyStr("binary"), PyStr("onehot")}}

Calls == SourceCalls \cup StepCalls \cup CycleCalls \cup ValueCalls
             \cup LengthCalls \cup OutputCalls

\* func(**params): the validated arguments as from_directory reads them
KwargsOf(params) ==
    [tightening_steps |-> [i \in 1..Len(params.tightening_steps.l) |->
                               params.tightening_steps.l[i].n],
     tightening_cycles |-> [i \in 1..Len(params.tightening_cycles.l) |->
                                params.tightening_cycles.l[i].n],
     tightening_values |-> [i \in 1..Len(params.tightening_values.l) |->
                                params.tightening_values.l[i].s],
     equidistancing_enabled |-> params.equidistancing_enabled = PyBool(TRUE),
     target_length |-> IF params.target_length = PyNone THEN None
                       ELSE Some(params.target_length.n),
     cutoff_position |-> IF params.cutoff_position = PyNone THEN None
                         ELSE Some(params.cutoff_position.s),
     padding_value |-> IF params.padding_value = PyNone THEN None
                       ELSE Some(params.padding_value.n),
     padding_position |-> IF params.padding_position = PyNone THEN None
                          ELSE Some(params.padding_position.s),
     split_ratio |-> IF params.split_ratio = PyNone THEN None
                     ELSE Some(<<params.split_ratio.n, params.split_ratio.d>>),
     split_seed |-> IF params.split_seed = PyNone THEN None
                    ELSE Some(params.split_seed.n),
     return_format |-> params.return_format.s,
     result_format |-> params.result_format.s]

\* get_data(**kwargs) has been called; nothing has run yet
InitGet ==
    /\ call \in {[fn |-> "get_data", params |-> p] : p \in Calls}
    /\ cfg = None
    /\ all_cycle_counts = <<>>
    /\ return_values = <<>>
    /\ pc = "called"
    /\ seen = <<>>
    /\ last = None
    /\ result = Pending
    /\ rng = 0
    /\ ret = Pending
    /\ splitRef = None

\* a faulty variant: the wrapped function is called whatever the validator said
AfterValidation_ignored(v) == "validated"

\* wrapper: validate_and_update_params(params) raises, or func(**params) runs
AfterValidation(v) == IF v.err # "none" THEN "rejected" ELSE "validated"

\* the wrapper of validate_parameter up to the call of the wrapped function;
\* ret holds what the validator made of the arguments
Validate ==
    /\ pc = "called"
    /\ LET v == validate_and_update_params(call.params)
       IN  /\ ret' = v
           /\ pc' = AfterValidation(v)
           /\ result' = IF v.err # "none" THEN [err |-> v.err] ELSE result
           /\ cfg' = IF v.err # "none" THEN cfg ELSE KwargsOf(v.params)
    /\ UNCHANGED <<all_cycle_counts, return_values, seen, last, rng, call,
                   splitRef>>

EndsWith(path, suffix) ==
    \/ suffix = ".db" /\ path = "records.db"
    \/ suffix = ".h5" /\ path = "records.h5"

IsDir(path) == path = "records"

\* the body of get_data: the branch on the kind of source (lines 128-144).
\* from_database and from_hierarchical are outside the sources at hand: the
\* model stops at their call.  A directory starts from_directory, which
\* lists it and creates its counters and buffers (lines 100-113).
Dispatch ==
    /\ pc = "validated"
    /\ LET source_path == ret.params.source_path.s
       IN  IF EndsWith(source_path, ".db") \/ EndsWith(source_path, ".h5")
           THEN /\ pc' = "external"
                /\ UNCHANGED <<all_cycle_counts, return_values, result>>
           ELSE IF IsDir(source_path)
           THEN /\ pc' = "loop"
                /\ all_cycle_counts' = NoCounts
                /\ return_values' =
                       [i \in 1..(Len(cfg.tightening_values) + 1) |-> <<>>]
                /\ UNCHANGED result
           ELSE /\ pc' = "error"
                /\ result' = [err |-> "ValueError"]
                /\ UNCHANGED <<all_cycle_counts, return_values>>
    /\ UNCHANGED <<cfg, seen, last, rng, call, ret, splitRef>>

\* the records of the directory "records"
ListedRecords ==
    { [id |-> Some("a"), label |-> Some("OK"),  steps |-> Some(<<StepA>>)],
      [id |-> Some("a"), label |-> Some("NOK"), steps |-> Some(<<StepA, StepB>>)],
      [id |-> None,      label |-> Some("OK"),  steps |-> Some(<<StepA>>)] }

LoadListed ==
    /\ call.fn = "get_data"
    /\ Len(seen) < MaxFiles
    /\ \E file \in ListedRecords : LoadRecord(file)

\* except Exception as e: raise RuntimeError(...) from e (lines 146-148)
Surface ==
    /\ call.fn = "get_data"
    /\ pc = "error"
    /\ pc' = "raised"
    /\ result' = [err |-> "RuntimeError", cause |-> result.err]
    /\ UNCHANGED <<cfg, all_cycle_counts, return_values, seen, last, rng,
                   call, ret, splitRef>>

\* return data (line 150)
Return ==
    /\ call.fn = "get_data"
    /\ pc = "done"
    /\ pc' = "returned"
    /\ UNCHANGED <<cfg, all_cycle_counts, return_values, seen, last, result,
                   rng, call, ret, splitRef>>

NextGet == Validate \/ Dispatch \/ LoadListed \/ Finish \/ Surface \/ Return

SpecGet == InitGet /\ [][NextGet]_vars

(***************************************************************************)
(* Properties of get_data and of the validator                             *)
(***************************************************************************)
\* the wrapped function has been called
FuncCalled == call.fn = "get_data" /\ pc \notin {"called", "rejected"}

Rejected ==
    /\ call.fn = "get_data"
    /\ pc = "rejected"
    /\ result.err = "ParameterValidationError"

\* what the claim says a selector becomes: "all" the full list, a scalar a
\* one-element list, a list itself
ResolvedAs(selector, received, full) ==
    /\ received.t = "list"
    /\ selector = ALL => received = full
    /\ (selector # ALL /\ selector.t # "list") => received = PyList(<<selector>>)
    /\ selector.t = "list" => received = selector

\* C22: whenever the wrapped function is called, each of the three selectors
\* it receives is a list: [1,2,3,4], [1..50] and the four channel names for
\* "all", a one-element list for a scalar, and the list itself for a list.
C22_SelectorsResolved ==
    FuncCalled =>
        /\ ResolvedAs(call.params.tightening_steps, ret.params.tightening_steps,
                      PyList(<<PyInt(1), PyInt(2), PyInt(3), PyInt(4)>>))
        /\ ResolvedAs(call.params.tightening_cycles, ret.params.tightening_cycles,
                      PyList([i \in 1..50 |-> PyInt(i)]))
        /\ ResolvedAs(call.params.tightening_values, ret.params.tightening_values,
                      PyList(<<PyStr("time"), PyStr("torque"), PyStr("angle"),
                               PyStr("gradient")>>))
        /\ cfg.tightening_steps =
               [i \in 1..Len(ret.params.tightening_steps.l) |->
                    ret.params.tightening_steps.l[i].n]

\* C22 (witness): the function was called with the scalar step 1, which it
\* received as [1], and with the cycles "all", received as fifty cycles.
C22_Witness ==
    /\ FuncCalled
    /\ call.params.tightening_steps = PyInt(1)
    /\ ret.params.tightening_steps = PyList(<<PyInt(1)>>)
    /\ cfg.tightening_steps = <<1>>
    /\ call.params.tightening_cycles = ALL
    /\ Len(ret.params.tightening_cycles.l) = 50

Items(selector) ==
    IF selector.t = "list" THEN {selector.l[i] : i \in 1..Len(selector.l)}
    ELSE IF selector = ALL THEN {}
    ELSE {selector}

GivenOutside(param, allowed) == param # PyNone /\ param \notin allowed

\* the configurations C23 lists
OutOfRange(p) ==
    \/ Items(p.tightening_steps) \ {PyInt(i) : i \in 1..4} # {}
    \/ Items(p.tightening_cycles) \ {PyInt(i) : i \in 1..50} # {}
    \/ Items(p.tightening_values)
           \ {PyStr("time"), PyStr("torque"), PyStr("angle"), PyStr("gradient")} # {}
    \/ /\ p.split_ratio # PyNone
       /\ ~(0 < p.split_ratio.n /\ p.split_ratio.n < p.split_ratio.d)
    \/ /\ p.target_length # PyNone
       /\ ~(p.target_length.t = "int" /\ p.target_length.n > 0)
    \/ GivenOutside(p.cutoff_position, {PyStr("pre"), PyStr("post")})
    \/ GivenOutside(p.padding_position, {PyStr("pre"), PyStr("post")})

\* C23: a call with a step outside 1..4, a cycle outside 1..50, a channel
\* that is not a valid name, a split_ratio outside (0,1), a target_length
\* that is not a positive integer or a position other than 'pre' and 'post'
\* ends with ParameterValidationError, and the wrapped function is not called.
C23_OutOfRangeRejected ==
    (call.fn = "get_data" /\ OutOfRange(call.params)) =>
        /\ ~FuncCalled
        /\ pc = "rejected" => Rejected

\* C23 (witness): the call with target_length 0 was rejected.
C23_Witness ==
    /\ Rejected
    /\ call.params.target_length = PyInt(0)
    /\ call.params.cutoff_position = PyNone
    /\ call.params.padding_position = PyNone

\* the channels the caller selected do not resolve to a list with 'time'
WithoutTime(selector) ==
    selector # ALL /\ PyStr("time") \notin Items(selector)

\* C24: a call with equidistancing_enabled true whose channels do not
\* include 'time' ends with ParameterValidationError; a record of the
\* validated pipeline reaches apply_equidistancing only with 'time' selected,
\* and apply_equidistancing never fails for a missing 'time' key.
C24_ResamplingNeedsTime ==
    /\ ( /\ call.fn = "get_data"
         /\ call.params.equidistancing_enabled = PyBool(TRUE)
         /\ WithoutTime(call.params.tightening_values) ) =>
           /\ ~FuncCalled
           /\ pc = "rejected" => Rejected
    /\ ( /\ FuncCalled
         /\ LastProcessed
         /\ last[1].trace # <<>>
         /\ last[1].trace[1] = "equidistancing" ) =>
           /\ InList("time", cfg.tightening_values)
           /\ ~(pc = "error" /\ last[1].trace = <<"equidistancing">>
                    /\ result.err = "KeyError")

\* C24 (witness): the call with equidistancing and the channels ['torque']
\* was rejected.
C24_Witness ==
    /\ Rejected
    /\ call.params.equidistancing_enabled = PyBool(TRUE)
    /\ call.params.tightening_values = PyList(<<PyStr("torque")>>)

\* C24 (the pipeline half): a record was resampled and retained.
C24_ResampledReached ==
    /\ FuncCalled
    /\ LastProcessed
    /\ last[1].kind = "retained"
    /\ last[1].trace = <<"equidistancing">>

Invalid(params) == validate_and_update_params(params).err # "none"

\* C25: for a call the validator rejects, get_data never gets past the
\* validation: the directory is not listed, no record is read, no counter and
\* no buffer exists, and the call ends with ParameterValidationError.
C25_FailsFast ==
    (call.fn = "get_data" /\ Invalid(call.params)) =>
        /\ pc \in {"called", "rejected"}
        /\ seen = <<>>
        /\ last = None
        /\ all_cycle_counts = <<>>
        /\ return_values = <<>>
        /\ cfg = None
        /\ pc = "rejected" => Rejected

\* C25 (witness): the call with the cycle 51 was rejected with nothing read.
C25_Witness ==
    /\ Rejected
    /\ call.params.tightening_cycles = PyInt(51)
    /\ seen = <<>>
    /\ all_cycle_counts = <<>>
    /\ return_values = <<>>

\* C26: when get_data has raised for a source that exists and is neither a
\* '.db' file, a '.h5' file nor a directory, the exception is ValueError.
C26_UnsupportedSourceRaisesValueError ==
    ( /\ call.fn = "get_data"
      /\ pc = "raised"
      /\ call.params.source_path = PyStr("records.txt") ) =>
        result.err = "ValueError"

\* C26 (what the code does): the caller gets RuntimeError, whose cause is
\* the ValueError.
C26_UnsupportedSourceRaisesRuntimeError ==
    ( /\ call.fn = "get_data"
      /\ pc = "raised"
      /\ call.params.source_path = PyStr("records.txt") ) =>
        result = [err |-> "RuntimeError", cause |-> "ValueError"]

\* C26 (reached): get_data has raised for the file records.txt.
C26_Reached ==
    /\ call.fn = "get_data"
    /\ pc = "raised"
    /\ call.params.source_path = PyStr("records.txt")

PaddingRequested(c) == c.padding_value # None /\ c.padding_position # None

\* C29: whenever the wrapped function is called with padding_value and
\* padding_position set, target_length is set too, and no record fails in
\* apply_padding for a missing target length.
C29_PaddingHasTarget ==
    (FuncCalled /\ PaddingRequested(cfg)) =>
        /\ cfg.target_length # None
        /\ ~( /\ LoadRaised
              /\ last[1].trace[Len(last[1].trace)] = "padding"
              /\ cfg.target_length = None )

\* C29 (reached): a record of a call with padding and no target_length
\* failed in apply_padding with TypeError.
C29_Reached ==
    /\ FuncCalled
    /\ PaddingRequested(cfg)
    /\ cfg.target_length = None
    /\ LoadRaised
    /\ last[1].trace = <<"padding">>
    /\ pc = "error"
    /\ result.err = "TypeError"

(***************************************************************************)
(* Properties of the stages and counters of from_directory                 *)
(***************************************************************************)
TruncatingConfigured(c) == c.target_length # None /\ c.cutoff_position # None

\* the stages the configuration asks for, in the order the claim gives
ConfiguredStages(c) ==
    (IF c.equidistancing_enabled THEN <<"equidistancing">> ELSE <<>>)
        \o (IF TruncatingConfigured(c) THEN <<"truncating">> ELSE <<>>)
        \o (IF PaddingRequested(c) THEN <<"padding">> ELSE <<>>)

IsPrefix(a, b) == Len(a) <= Len(b) /\ a = SubSeq(b, 1, Len(a))

\* C27: the stages a record went through are the configured ones in the
\* order resample, truncate, pad, up to the stage that failed if one did; a
\* retained record went through all of them; with truncating and padding
\* both configured, padding is given channels no longer than target_length
\* and does not fail; only a record that passed every stage is in the buffers.
C27_StageOrder ==
    (LastProcessed /\ last[1].trace # <<"extraction">>) =>
        LET e == last[1]
            stages == ConfiguredStages(cfg)
        IN  /\ IsPrefix(e.trace, stages)
            /\ seen[Len(seen)].kept = (e.trace = stages /\ e.kind = "retained")
            /\ \A c \in 1..Len(return_values) : Len(return_values[c]) = Kept(seen)
            /\ e.kind = "retained" =>
                   /\ e.trace = stages
                   /\ Len(e.lens) = Len(stages)
                   /\ (TruncatingConfigured(cfg) /\ PaddingRequested(cfg)) =>
                          \A i \in 1..Len(e.lens[Len(stages)]) :
                              e.lens[Len(stages)][i] <= cfg.target_length[1]
            /\ (e.kind = "raised" /\ TruncatingConfigured(cfg)
                    /\ PaddingRequested(cfg)) =>
                   e.trace[Len(e.trace)] # "padding"

\* C27 (witness): a record was resampled, then cut to target_length, then
\* given to padding, and retained.
C27_Witness ==
    /\ LastProcessed
    /\ last[1].kind = "retained"
    /\ last[1].trace = <<"equidistancing", "truncating", "padding">>
    /\ \E i \in 1..Len(last[1].lens[2]) : last[1].lens[2][i] > cfg.target_length[1]
    /\ \A i \in 1..Len(last[1].lens[3]) : last[1].lens[3][i] = cfg.target_length[1]

\* C28: after any prefix of the enumerated records the counter of every id
\* is the number of records of the prefix with this id and all three
\* required fields, whether the cycle filter retained them or not.
C28_CounterCountsWellFormed ==
    pc \in {"loop", "done", "error"} =>
        \A id \in FileIds : all_cycle_counts[id] = Occurrences(seen, id)

\* C28 (witness): of three records of the id a, one lacked a field and the
\* last was rejected by the cycle filter; the counter of a is two.
C28_Witness ==
    /\ Len(seen) = 3
    /\ \A i \in 1..3 : seen[i].id = Some("a")
    /\ \E i \in 1..3 : ~seen[i].ok
    /\ last # None
    /\ last[1].kind = "filtered"
    /\ all_cycle_counts[Some("a")] = 2
    /\ all_cycle_counts[Some("b")] = 0

(***************************************************************************)
(* Properties of apply_split: empty parts                                  *)
(***************************************************************************)
\* C30: for a buffer of N >= 1 records and a ratio r in (0,1), no test part
\* that apply_split returns is empty, and the train parts are empty exactly
\* when N*r < 1.
C30_TestNeverEmpty ==
    (SplitReturned /\ call.split_ratio # None /\ SplitRecords >= 1) =>
        LET ratio == call.split_ratio[1]
            trainEmpty == SplitRecords * ratio[1] < ratio[2]
        IN  /\ Len(ret.parts) = 4
            /\ Len(ret.parts[4]) >= 1
            /\ (Len(ret.parts[3]) = 0) <=> trainEmpty
            /\ \A c \in 1..(Len(call.data) - 1) :
                   /\ Len(ret.parts[2][c]) >= 1
                   /\ (Len(ret.parts[1][c]) = 0) <=> trainEmpty

\* C30 (witness): one record at ratio 2/3: nothing to train on, one test
\* record.
C30_Witness ==
    /\ SplitReturned
    /\ call.split_ratio = Some(<<2, 3>>)
    /\ SplitRecords = 1
    /\ ret.parts[3] = <<>>
    /\ Len(ret.parts[4]) = 1

\* C30 (the boundary): two records at ratio 1/2, N*r = 1: one train record.
C30_Boundary ==
    /\ SplitReturned
    /\ call.split_ratio = Some(<<1, 2>>)
    /\ SplitRecords = 2
    /\ Len(ret.parts[3]) = 1
    /\ Len(ret.parts[4]) = 1

====
